---------------------------- MODULE Spec2Model ----------------------------
(***************************************************************************)
(* Model of the HTML translation pipeline of adaspring/TrabslateDeep:      *)
(* HTMLTranslationProcessor (extraction), TranslationIntegrator (provider  *)
(* calls and arbitration) and HTMLTranslationManager (process_file,        *)
(* _translate_item, _merge_translations), as driven by main.               *)
(*                                                                         *)
(* Two scripts of the repository are modelled side by side, selected by    *)
(* the variable version:                                                   *)
(*   "orig"  = src/translator.py        (thread pool, DOM merge)           *)
(*   "fixed" = src/translator_fixed.py  (sequential loop, string merge)    *)
(* Extraction is the same code in both.                                    *)
(*                                                                         *)
(* Strings are sequences of tokens.  A token is a short piece of text      *)
(* that none of the modelled string operations ever cuts in two.           *)
(* A document tree (the BeautifulSoup object) is a sequence of nodes;      *)
(* a node is a record [kind, s, tag, attrs, kids].                         *)
(***************************************************************************)
EXTENDS Integers, Sequences, FiniteSets, TLC

(***************************************************************************)
(* Bounds of the model.                                                    *)
(***************************************************************************)
\* Number of files main hands to process_file in one run.
MaxFiles == 2
\* Total number of units extracted over one run (bounds the documents drawn).
MaxUnits == 2

(***************************************************************************)
(* Strings.                                                                *)
(***************************************************************************)
Digit == <<"0", "1", "2", "3", "4", "5", "6", "7", "8", "9">>

\* str.format of a non-negative integer: its decimal digits.
RECURSIVE FormatInt(_)
FormatInt(n) ==
    IF n < 10 THEN <<Digit[n + 1]>>
    ELSE FormatInt(n \div 10) \o <<Digit[(n % 10) + 1]>>

Whitespace == {" "}

\* str.strip(): leading and trailing whitespace removed.
RECURSIVE LStrip(_)
LStrip(s) ==
    IF s # <<>> /\ Head(s) \in Whitespace THEN LStrip(Tail(s)) ELSE s

RECURSIVE RStrip(_)
RStrip(s) ==
    IF s # <<>> /\ s[Len(s)] \in Whitespace
    THEN RStrip(SubSeq(s, 1, Len(s) - 1)) ELSE s

Strip(s) == RStrip(LStrip(s))

\* Whether pat occurs in s at position i.
MatchAt(s, pat, i) ==
    /\ i + Len(pat) - 1 <= Len(s)
    /\ \A k \in 1..Len(pat) : s[i + k - 1] = pat[k]

\* Python's `pat in s`.
Contains(s, pat) == \E i \in 1..(Len(s) + 1) : MatchAt(s, pat, i)

\* Number of (non-overlapping, left to right) occurrences of pat in s.
RECURSIVE CountFrom(_, _, _)
CountFrom(s, pat, i) ==
    IF i > Len(s) THEN 0
    ELSE IF MatchAt(s, pat, i) THEN 1 + CountFrom(s, pat, i + Len(pat))
    ELSE CountFrom(s, pat, i + 1)

Count(s, pat) == CountFrom(s, pat, 1)

\* str.replace(old, new): every non-overlapping occurrence, left to right.
RECURSIVE ReplaceFrom(_, _, _, _)
ReplaceFrom(s, old, new, i) ==
    IF i > Len(s) THEN <<>>
    ELSE IF MatchAt(s, old, i) THEN new \o ReplaceFrom(s, old, new, i + Len(old))
    ELSE <<s[i]>> \o ReplaceFrom(s, old, new, i + 1)

StrReplace(s, old, new) == ReplaceFrom(s, old, new, 1)

\* The marker text every placeholder carries; the only tokens with a "_".
Marker == "TRANSLATION_ID_"
UnderscoreTokens == {Marker, "_"}

\* self.placeholder_template.format(id)
PlaceholderTemplate(id) ==
    <<"<!--", " ", Marker>> \o FormatInt(id) \o <<" ", "-->">>

(***************************************************************************)
(* Entity substitution of the serializer, and its decoding by the parser.  *)
(* The formatter turns "<" into "&lt;" and ">" into "&gt;" in text nodes   *)
(* and attribute values; the parser turns them back.                       *)
(***************************************************************************)
EscapeToken(t) ==
    CASE t = "<!--" -> "&lt;!--"
      [] t = "-->"  -> "--&gt;"
      [] t = "<"    -> "&lt;"
      [] t = ">"    -> "&gt;"
      [] t = "</"   -> "&lt;/"
      [] OTHER      -> t

UnescapeToken(t) ==
    CASE t = "&lt;!--" -> "<!--"
      [] t = "--&gt;"  -> "-->"
      [] t = "&lt;"    -> "<"
      [] t = "&gt;"    -> ">"
      [] t = "&lt;/"   -> "</"
      [] OTHER         -> t

Escape(s) == [i \in 1..Len(s) |-> EscapeToken(s[i])]
Unescape(s) == [i \in 1..Len(s) |-> UnescapeToken(s[i])]

(***************************************************************************)
(* The document tree.                                                      *)
(***************************************************************************)
Text(s) == [kind |-> "text", s |-> s, tag |-> "", attrs |-> <<>>, kids |-> <<>>]
Comment(s) == [kind |-> "comment", s |-> s, tag |-> "", attrs |-> <<>>, kids |-> <<>>]
Elem(tag, attrs, kids) ==
    [kind |-> "elem", s |-> <<>>, tag |-> tag, attrs |-> attrs, kids |-> kids]
Attr(name, value) == [name |-> name, value |-> value]

\* A NavigableString (Comment is a subclass of it).
IsString(n) == n.kind \in {"text", "comment"}

\* The node at path p (child indices from the root) of the node list.
RECURSIVE NodeAt(_, _)
NodeAt(nodes, p) ==
    IF Len(p) = 1 THEN nodes[p[1]]
    ELSE NodeAt(nodes[p[1]].kids, Tail(p))

\* The node list with the node at path p replaced by n.
RECURSIVE SetAt(_, _, _)
SetAt(nodes, p, n) ==
    IF Len(p) = 1 THEN [nodes EXCEPT ![p[1]] = n]
    ELSE [nodes EXCEPT ![p[1]] =
              [@ EXCEPT !.kids = SetAt(nodes[p[1]].kids, Tail(p), n)]]

\* Paths of all nodes below `nodes`, in document order (pre-order).
RECURSIVE PathsFrom(_, _, _)
PathsFrom(nodes, prefix, i) ==
    IF i > Len(nodes) THEN <<>>
    ELSE <<prefix \o <<i>>>>
         \o PathsFrom(nodes[i].kids, prefix \o <<i>>, 1)
         \o PathsFrom(nodes, prefix, i + 1)

AllPaths(soup) == PathsFrom(soup, <<>>, 1)

HasAttr(n, name) == \E k \in 1..Len(n.attrs) : n.attrs[k].name = name

GetAttr(n, name) ==
    n.attrs[CHOOSE k \in 1..Len(n.attrs) : n.attrs[k].name = name].value

\* element[attr] = value
SetAttr(n, name, value) ==
    IF HasAttr(n, name)
    THEN [n EXCEPT !.attrs =
             [k \in 1..Len(n.attrs) |->
                 IF n.attrs[k].name = name THEN Attr(name, value) ELSE n.attrs[k]]]
    ELSE [n EXCEPT !.attrs = Append(n.attrs, Attr(name, value))]

\* soup.find_all(tag): the elements of that name, in document order.
FindAll(soup, tag) ==
    SelectSeq(AllPaths(soup),
              LAMBDA p : NodeAt(soup, p).kind = "elem" /\ NodeAt(soup, p).tag = tag)

\* soup.find_all(attrs={attr: True}): the elements that carry the attribute,
\* whatever its value (the empty string included).
FindAllWithAttr(soup, attr) ==
    SelectSeq(AllPaths(soup),
              LAMBDA p : NodeAt(soup, p).kind = "elem" /\ HasAttr(NodeAt(soup, p), attr))

\* soup.find_all(text=True): every string node, comments included.
FindAllText(soup) ==
    SelectSeq(AllPaths(soup), LAMBDA p : IsString(NodeAt(soup, p)))

\* Tag.string: the path of the single string below the element, following
\* single-child chains; <<>> stands for None.
RECURSIVE StringPath(_, _)
StringPath(soup, p) ==
    LET e == NodeAt(soup, p) IN
    IF Len(e.kids) # 1 THEN <<>>
    ELSE IF IsString(e.kids[1]) THEN p \o <<1>>
    ELSE StringPath(soup, p \o <<1>>)

(***************************************************************************)
(* str(soup): serialization with the default ("minimal") formatter.        *)
(***************************************************************************)
RECURSIVE SerializeAttrs(_, _)
SerializeAttrs(attrs, k) ==
    IF k > Len(attrs) THEN <<>>
    ELSE <<" ", attrs[k].name, "=", "\"">> \o Escape(attrs[k].value) \o <<"\"">>
         \o SerializeAttrs(attrs, k + 1)

RECURSIVE SerializeNodes(_, _)
SerializeNode(n) ==
    CASE n.kind = "text"    -> Escape(n.s)
      [] n.kind = "comment" -> <<"<!--">> \o n.s \o <<"-->">>
      [] OTHER              -> <<"<", n.tag>> \o SerializeAttrs(n.attrs, 1) \o <<">">>
                               \o SerializeNodes(n.kids, 1)
                               \o <<"</", n.tag, ">">>

SerializeNodes(nodes, i) ==
    IF i > Len(nodes) THEN <<>>
    ELSE SerializeNode(nodes[i]) \o SerializeNodes(nodes, i + 1)

Serialize(soup) == SerializeNodes(soup, 1)

(***************************************************************************)
(* BeautifulSoup(html, 'html.parser') on well-formed markup.               *)
(***************************************************************************)
\* First position >= i holding token t (Len + 1 when there is none).
RECURSIVE IndexOf(_, _, _)
IndexOf(toks, t, i) ==
    IF i > Len(toks) \/ toks[i] = t THEN i ELSE IndexOf(toks, t, i + 1)

MarkupOpeners == {"<", "</", "<!--"}

\* End (exclusive) of the run of character data starting at i.
RECURSIVE TextEnd(_, _)
TextEnd(toks, i) ==
    IF i > Len(toks) \/ toks[i] \in MarkupOpeners THEN i ELSE TextEnd(toks, i + 1)

\* Attributes of a start tag from position i; returns [attrs, next], next
\* being the position of the closing ">".
RECURSIVE ParseAttrs(_, _)
ParseAttrs(toks, i) ==
    IF toks[i] # " " THEN [attrs |-> <<>>, next |-> i]
    ELSE LET close == IndexOf(toks, "\"", i + 4)
             rest == ParseAttrs(toks, close + 1)
         IN [attrs |-> <<Attr(toks[i + 1], Unescape(SubSeq(toks, i + 4, close - 1)))>>
                       \o rest.attrs,
             next |-> rest.next]

RECURSIVE ParseNodes(_, _)
ParseNodes(toks, i) ==
    IF i > Len(toks) \/ toks[i] = "</" THEN [nodes |-> <<>>, next |-> i]
    ELSE LET one ==
               IF toks[i] = "<!--"
               THEN LET close == IndexOf(toks, "-->", i + 1)
                    IN [node |-> Comment(SubSeq(toks, i + 1, close - 1)),
                        next |-> close + 1]
               ELSE IF toks[i] = "<"
               THEN LET a == ParseAttrs(toks, i + 2)
                        inner == ParseNodes(toks, a.next + 1)
                    IN [node |-> Elem(toks[i + 1], a.attrs, inner.nodes),
                        next |-> inner.next + 3]
               ELSE LET e == TextEnd(toks, i)
                    IN [node |-> Text(Unescape(SubSeq(toks, i, e - 1))), next |-> e]
             rest == ParseNodes(toks, one.next)
         IN [nodes |-> <<one.node>> \o rest.nodes, next |-> rest.next]

Parse(html) == ParseNodes(html, 1).nodes


(***************************************************************************)
(* HTMLTranslationProcessor.                                               *)
(***************************************************************************)
\* translatable_config['elements']['text_content'], in its order.
TextContentTags ==
    <<"title", "h1", "h2", "h3", "h4", "h5", "h6", "p", "a", "button", "span",
      "div", "li", "td", "th", "label", "address", "figcaption", "caption",
      "summary", "blockquote", "q", "cite", "dt", "dd", "legend", "option",
      "strong", "em", "mark", "time">>

\* translatable_config['attributes']['global'], in its order.
GlobalAttributes == <<"title", "alt", "placeholder">>

\* The processor while extract_translatable runs: the tree being rewritten,
\* the instance fields translation_data and current_id, and base, the length
\* translation_data had when the call started (entries above base refer to
\* elements of this call's tree).
ProcessorState(soup, translation_data, current_id, base) ==
    [soup |-> soup, translation_data |-> translation_data,
     current_id |-> current_id, base |-> base]

\* entry['context']['attrs'] is the element's own attribute dictionary, not a
\* copy: after element[attr] = value every entry of this call that recorded
\* the same element shows the new value.
AliasAttrs(translation_data, base, p, attrs) ==
    [k \in 1..Len(translation_data) |->
        IF k > base /\ translation_data[k].elem = p
        THEN [translation_data[k] EXCEPT !.context.attrs = attrs]
        ELSE translation_data[k]]

\* _create_placeholder(element, content, content_type, attr)
CreatePlaceholder(st, p, content, content_type, attr) ==
    LET placeholder == PlaceholderTemplate(st.current_id)
        element == NodeAt(st.soup, p)
        entry == [id |-> st.current_id,
                  type |-> content_type,
                  content |-> content,
                  context |-> [tag |-> element.tag, attrs |-> element.attrs],
                  attribute |-> attr,
                  elem |-> p]
        changed == SetAttr(element, attr, placeholder)
    IN IF content_type = "attribute"
       THEN ProcessorState(SetAt(st.soup, p, changed),
                           AliasAttrs(Append(st.translation_data, entry),
                                      st.base, p, changed.attrs),
                           st.current_id + 1, st.base)
       ELSE ProcessorState(SetAt(st.soup, StringPath(st.soup, p), Text(placeholder)),
                           Append(st.translation_data, entry),
                           st.current_id + 1, st.base)

\* _process_text_node(element)
ProcessTextNode(st, p) ==
    LET text == Strip(NodeAt(st.soup, StringPath(st.soup, p)).s)
    IN CreatePlaceholder(st, p, text, "text", "")

\* _process_attribute(element, attr)
ProcessAttribute(st, p, attr) ==
    CreatePlaceholder(st, p, GetAttr(NodeAt(st.soup, p), attr), "attribute", attr)

\* `if element.string and element.string.strip()`
HasTranslatableString(soup, p) ==
    /\ StringPath(soup, p) # <<>>
    /\ NodeAt(soup, StringPath(soup, p)).s # <<>>
    /\ Strip(NodeAt(soup, StringPath(soup, p)).s) # <<>>

\* for element in soup.find_all(tag): ...
RECURSIVE TextElementLoop(_, _, _)
TextElementLoop(st, elements, k) ==
    IF k > Len(elements) THEN st
    ELSE TextElementLoop(IF HasTranslatableString(st.soup, elements[k])
                         THEN ProcessTextNode(st, elements[k])
                         ELSE st,
                         elements, k + 1)

\* The next tag of the allow-list after position t that has an element in
\* the tree (Len + 1 when there is none).  The tags in between have an empty
\* find_all result, so their turn of the outer loop does nothing.
NextTagWithElements(soup, t) ==
    LET later == {u \in (t + 1)..Len(TextContentTags) :
                     FindAll(soup, TextContentTags[u]) # <<>>}
    IN IF later = {} THEN Len(TextContentTags) + 1
       ELSE CHOOSE u \in later : \A w \in later : u <= w

\* for tag in translatable_config['elements']['text_content']: ...
\* t is the position of the current tag (0 before the first).
RECURSIVE TextTagLoop(_, _)
TextTagLoop(st, t) ==
    IF t > Len(TextContentTags) THEN st
    ELSE IF t = 0 THEN TextTagLoop(st, NextTagWithElements(st.soup, 0))
    ELSE TextTagLoop(TextElementLoop(st, FindAll(st.soup, TextContentTags[t]), 1),
                     NextTagWithElements(st.soup, t))

\* for element in soup.find_all(attrs={attr: True}): ...
RECURSIVE AttrElementLoop(_, _, _, _)
AttrElementLoop(st, elements, attr, k) ==
    IF k > Len(elements) THEN st
    ELSE AttrElementLoop(ProcessAttribute(st, elements[k], attr), elements, attr, k + 1)

\* for attr in translatable_config['attributes']['global']: ...
RECURSIVE AttrLoop(_, _)
AttrLoop(st, a) ==
    IF a > Len(GlobalAttributes) THEN st
    ELSE AttrLoop(AttrElementLoop(st, FindAllWithAttr(st.soup, GlobalAttributes[a]),
                                  GlobalAttributes[a], 1),
                  a + 1)

\* extract_translatable(html_content) on a processor whose fields are
\* translation_data and current_id; returns the result dictionary together
\* with the processor's fields after the call.  The returned
\* 'translation_data' is the processor's own list.
\* (An extraction that restarts the counter and keeps the list.)
ExtractTranslatableRestart(html_content, translation_data, current_id) ==
    LET st0 == ProcessorState(Parse(html_content), translation_data, 0,
                              Len(translation_data))
        st == AttrLoop(TextTagLoop(st0, 0), 1)
    IN [processed_html |-> Serialize(st.soup),
        translation_data |-> st.translation_data,
        current_id |-> st.current_id]

ExtractTranslatable(html_content, translation_data, current_id) ==
    LET st0 == ProcessorState(Parse(html_content), translation_data, current_id,
                              Len(translation_data))
        st == AttrLoop(TextTagLoop(st0, 0), 1)
    IN [processed_html |-> Serialize(st.soup),
        translation_data |-> st.translation_data,
        current_id |-> st.current_id]


(***************************************************************************)
(* Values that travel through the pipeline: strings, and the other things  *)
(* json.loads can return.  A value is [t, v, f]: t its type, v its tokens  *)
(* (string, number), f its members (object: key/value pairs in source      *)
(* order; list: values).                                                   *)
(***************************************************************************)
Str(s) == [t |-> "str", v |-> s, f |-> <<>>]
Num(d) == [t |-> "num", v |-> d, f |-> <<>>]
Null == [t |-> "null", v |-> <<>>, f |-> <<>>]
Obj(pairs) == [t |-> "obj", v |-> <<>>, f |-> pairs]
List(members) == [t |-> "list", v |-> <<>>, f |-> members]
Pair(key, val) == [key |-> key, val |-> val]

IsStr(x) == x.t = "str"

\* key in d (d a dict)
HasKey(d, key) == \E k \in 1..Len(d.f) : d.f[k].key = key

\* d[key] for a key that is present: the last pair of that key.
Get(d, key) ==
    d.f[CHOOSE k \in 1..Len(d.f) :
            /\ d.f[k].key = key
            /\ \A j \in (k + 1)..Len(d.f) : d.f[j].key # key].val

\* Python truth value.
Truthy(x) ==
    CASE x.t = "str"  -> x.v # <<>>
      [] x.t = "num"  -> x.v # <<"0">>
      [] x.t = "null" -> FALSE
      [] OTHER        -> x.f # <<>>

\* The text written for a unit whose translation failed (translator.py:221).
Sentinel == <<"[TRANSLATION_ERROR]">>

(***************************************************************************)
(* json.loads on a token string.  Tokens of JSON text: { } [ ] : ,         *)
(* null, digits, the double quote, and the tokens between two quotes.      *)
(* Returns [ok, val, next]; ok = FALSE is JSONDecodeError.                 *)
(***************************************************************************)
JsonFail == [ok |-> FALSE, val |-> Null, next |-> 0]

RECURSIVE SkipSpace(_, _)
SkipSpace(s, i) ==
    IF i <= Len(s) /\ s[i] \in Whitespace THEN SkipSpace(s, i + 1) ELSE i

IsDigit(t) == \E k \in 1..Len(Digit) : Digit[k] = t

\* A string literal starting at the opening quote at i.
JsonString(s, i) ==
    LET close == IndexOf(s, "\"", i + 1)
    IN IF close > Len(s) THEN JsonFail
       ELSE [ok |-> TRUE, val |-> Str(SubSeq(s, i + 1, close - 1)), next |-> close + 1]

RECURSIVE JsonValue(_, _)
RECURSIVE JsonMembers(_, _, _)
RECURSIVE JsonItems(_, _, _)

\* The pairs of an object after "{" (or after a ","), up to "}".
JsonMembers(s, i0, acc) ==
    LET i == SkipSpace(s, i0) IN
    IF i > Len(s) \/ s[i] # "\"" THEN JsonFail
    ELSE LET key == JsonString(s, i)
             c == SkipSpace(s, key.next)
         IN IF ~key.ok \/ c > Len(s) \/ s[c] # ":" THEN JsonFail
            ELSE LET val == JsonValue(s, c + 1)
                     e == SkipSpace(s, val.next)
                     pairs == Append(acc, Pair(key.val.v, val.val))
                 IN IF ~val.ok \/ e > Len(s) THEN JsonFail
                    ELSE IF s[e] = "}" THEN [ok |-> TRUE, val |-> Obj(pairs), next |-> e + 1]
                    ELSE IF s[e] = "," THEN JsonMembers(s, e + 1, pairs)
                    ELSE JsonFail

\* The values of a list after "[" (or after a ","), up to "]".
JsonItems(s, i0, acc) ==
    LET val == JsonValue(s, i0)
        e == SkipSpace(s, val.next)
        items == Append(acc, val.val)
    IN IF ~val.ok \/ e > Len(s) THEN JsonFail
       ELSE IF s[e] = "]" THEN [ok |-> TRUE, val |-> List(items), next |-> e + 1]
       ELSE IF s[e] = "," THEN JsonItems(s, e + 1, items)
       ELSE JsonFail

JsonValue(s, i0) ==
    LET i == SkipSpace(s, i0) IN
    IF i > Len(s) THEN JsonFail
    ELSE IF s[i] = "null" THEN [ok |-> TRUE, val |-> Null, next |-> i + 1]
    ELSE IF IsDigit(s[i]) THEN [ok |-> TRUE, val |-> Num(<<s[i]>>), next |-> i + 1]
    ELSE IF s[i] = "\"" THEN JsonString(s, i)
    ELSE IF s[i] = "{"
         THEN LET j == SkipSpace(s, i + 1)
              IN IF j <= Len(s) /\ s[j] = "}"
                 THEN [ok |-> TRUE, val |-> Obj(<<>>), next |-> j + 1]
                 ELSE JsonMembers(s, i + 1, <<>>)
    ELSE IF s[i] = "["
         THEN LET j == SkipSpace(s, i + 1)
              IN IF j <= Len(s) /\ s[j] = "]"
                 THEN [ok |-> TRUE, val |-> List(<<>>), next |-> j + 1]
                 ELSE JsonItems(s, i + 1, <<>>)
    ELSE JsonFail

\* json.loads(s): one value, then nothing but whitespace.
JsonLoads(s) ==
    LET r == JsonValue(s, 1)
    IN IF r.ok /\ SkipSpace(s, r.next) > Len(s) THEN r ELSE JsonFail

(***************************************************************************)
(* re.search(r'{\s*"content"\s*:\s*"([^"]+)"\s*}', content)                *)
(* Returns [found, group1].                                                *)
(***************************************************************************)
ContentPatternAt(s, i) ==
    LET a == SkipSpace(s, i + 1)         \* after "{"
        b == SkipSpace(s, a + 3)         \* after "content" in quotes
        c == SkipSpace(s, b + 1)         \* after ":"
        close == IndexOf(s, "\"", c + 1) \* the quote ending group 1
        d == SkipSpace(s, close + 1)
    IN IF /\ i <= Len(s) /\ s[i] = "{"
          /\ a + 2 <= Len(s) /\ s[a] = "\"" /\ s[a + 1] = "content" /\ s[a + 2] = "\""
          /\ b <= Len(s) /\ s[b] = ":"
          /\ c <= Len(s) /\ s[c] = "\""
          /\ close <= Len(s) /\ close > c + 1
          /\ d <= Len(s) /\ s[d] = "}"
       THEN [found |-> TRUE, group1 |-> SubSeq(s, c + 1, close - 1)]
       ELSE [found |-> FALSE, group1 |-> <<>>]

RECURSIVE SearchContentPattern(_, _)
SearchContentPattern(s, i) ==
    IF i > Len(s) THEN [found |-> FALSE, group1 |-> <<>>]
    ELSE IF ContentPatternAt(s, i).found THEN ContentPatternAt(s, i)
    ELSE SearchContentPattern(s, i + 1)


(***************************************************************************)
(* TranslationIntegrator.  The three remote services are the environment:  *)
(* for one unit, env = [libre, deepl, arb] says how each call ends.        *)
(*   env.libre, env.deepl : "ok" (the call returns a text) or "fail" (the  *)
(*                          call raises, after whatever retries it makes)  *)
(*   env.arb = [status, content] : "unreachable" (the request or the       *)
(*       decoding of its body raises), "no_choices" (a body without        *)
(*       'choices'), or "content" (choices[0].message.content = content).  *)
(* A call result is [raised, val].                                         *)
(***************************************************************************)
Returned(val) == [raised |-> FALSE, val |-> val]
Raised == [raised |-> TRUE, val |-> Null]

\* What the services answer when they answer: a text that depends on the
\* text they were sent.
LibreText(text) == <<"libre:">> \o text
DeeplText(text) == <<"deepl:">> \o text
ArbText(text) == <<"gpt:">> \o text

\* translate_with_libre(text, target_lang)
TranslateWithLibre(text, env) ==
    IF env.libre = "ok" THEN Returned(Str(LibreText(text))) ELSE Raised

\* translate_with_deepl(text, target_lang)
TranslateWithDeepl(text, env) ==
    IF env.deepl = "ok" THEN Returned(Str(DeeplText(text))) ELSE Raised

KeyContent == <<"content">>
KeyCombined == <<"combined_version">>
KeyChosen == <<"chosen_translation">>

\* translator.py resolve_with_chatgpt: nothing is caught.
ResolveWithChatgptOrig(original, libre, deepl, arb) ==
    IF arb.status # "content" THEN Raised
    ELSE IF JsonLoads(arb.content).ok THEN Returned(JsonLoads(arb.content).val)
    ELSE Raised

\* (A resolver without the pattern extraction.)
ResolveWithChatgptNoPattern(original, libre, deepl, arb) ==
    IF arb.status = "content" /\ JsonLoads(Strip(arb.content)).ok
    THEN JsonLoads(Strip(arb.content)).val
    ELSE Obj(<<Pair(KeyContent, Str(deepl))>>)

\* translator_fixed.py resolve_with_chatgpt: every failure of the request
\* falls back to {"content": deepl}; a content that parses as JSON is
\* returned as parsed, whatever it is.
ResolveWithChatgptFixed(original, libre, deepl, arb) ==
    LET fallback == Obj(<<Pair(KeyContent, Str(deepl))>>)
        content == Strip(arb.content)
        match == SearchContentPattern(content, 1)
    IN IF arb.status # "content" THEN fallback
       ELSE IF JsonLoads(content).ok THEN JsonLoads(content).val
       ELSE IF match.found THEN Obj(<<Pair(KeyContent, Str(match.group1))>>)
       ELSE fallback

(***************************************************************************)
(* HTMLTranslationManager._translate_item.  A result entry is [id, final]: *)
(* final is 'final_translation' in translator.py and 'content' in          *)
(* translator_fixed.py.                                                    *)
(***************************************************************************)
Entry(id, final) == [id |-> id, final |-> final]

\* translator.py: one try block around the three calls; any exception gives
\* the sentinel.
TranslateItemOrig(item, env) ==
    LET libre == TranslateWithLibre(item.content, env)
        deepl == TranslateWithDeepl(item.content, env)
        analysis == ResolveWithChatgptOrig(item.content, libre.val.v, deepl.val.v, env.arb)
        error == Returned(Entry(item.id, Str(Sentinel)))
    IN IF libre.raised \/ deepl.raised \/ analysis.raised THEN error
       ELSE IF analysis.val.t # "obj" THEN error            \* no .get: AttributeError
       ELSE IF HasKey(analysis.val, KeyCombined) /\ Truthy(Get(analysis.val, KeyCombined))
            THEN Returned(Entry(item.id, Get(analysis.val, KeyCombined)))
       ELSE IF HasKey(analysis.val, KeyChosen)
            THEN Returned(Entry(item.id, Get(analysis.val, KeyChosen)))
       ELSE error                                           \* KeyError

\* translator_fixed.py: each provider call has its own try block; the
\* arbitration result is indexed with ['content'] outside any try block.
TranslateItemFixed(item, env) ==
    LET libre == IF TranslateWithLibre(item.content, env).raised
                 THEN item.content
                 ELSE TranslateWithLibre(item.content, env).val.v
        deepl == IF TranslateWithDeepl(item.content, env).raised
                 THEN (IF libre # <<>> THEN libre ELSE item.content)
                 ELSE TranslateWithDeepl(item.content, env).val.v
        result == ResolveWithChatgptFixed(item.content, libre, deepl, env.arb)
    IN IF result.t = "obj" /\ HasKey(result, KeyContent)
       THEN Returned(Entry(item.id, Get(result, KeyContent)))
       ELSE Raised                                          \* KeyError, TypeError

\* The service calls _translate_item makes for a unit.  translator.py: a
\* call that raises leaves the try block, the later calls are not made.
CallsOrig(item, env) ==
    {"libre"}
    \cup (IF TranslateWithLibre(item.content, env).raised THEN {} ELSE {"deepl"})
    \cup (IF TranslateWithLibre(item.content, env).raised
             \/ TranslateWithDeepl(item.content, env).raised THEN {} ELSE {"arb"})

\* translator_fixed.py: the three calls are always made.
CallsFixed(item, env) == {"libre", "deepl", "arb"}

\* The libre and deepl arguments resolve_with_chatgpt is called with, if it
\* is called.
NotResolved == [called |-> FALSE, libre |-> <<>>, deepl |-> <<>>]

ResolveArgsOrig(item, env) ==
    IF "arb" \in CallsOrig(item, env)
    THEN [called |-> TRUE,
          libre |-> TranslateWithLibre(item.content, env).val.v,
          deepl |-> TranslateWithDeepl(item.content, env).val.v]
    ELSE NotResolved

ResolveArgsFixed(item, env) ==
    LET libre == IF TranslateWithLibre(item.content, env).raised
                 THEN item.content
                 ELSE TranslateWithLibre(item.content, env).val.v
        deepl == IF TranslateWithDeepl(item.content, env).raised
                 THEN (IF libre # <<>> THEN libre ELSE item.content)
                 ELSE TranslateWithDeepl(item.content, env).val.v
    IN [called |-> TRUE, libre |-> libre, deepl |-> deepl]

(***************************************************************************)
(* HTMLTranslationManager._merge_translations.  Returns [raised, val]      *)
(* with val the merged html (a Str).                                       *)
(***************************************************************************)
\* translator_fixed.py: f"<!-- TRANSLATION_ID_{entry['id']} -->"
MergePlaceholder(id) ==
    <<"<!--", " ", Marker>> \o FormatInt(id) \o <<" ", "-->">>

\* translator_fixed.py: one str.replace per entry, on the html text; a
\* replacement that is not a str is a TypeError.
RECURSIVE MergeTranslationsFixedFrom(_, _, _)
MergeTranslationsFixedFrom(html, translations, k) ==
    IF k > Len(translations) THEN Returned(Str(html))
    ELSE IF ~IsStr(translations[k].final) THEN Raised
    ELSE MergeTranslationsFixedFrom(
             StrReplace(html, MergePlaceholder(translations[k].id), translations[k].final.v),
             translations, k + 1)

MergeTranslationsFixed(html, translations) ==
    MergeTranslationsFixedFrom(html, translations, 1)

\* translator.py: {t['id']: t['final_translation'] for t in translations},
\* as the entry that decides each id (the last one of that id).
HasTranslation(translations, id) ==
    \E k \in 1..Len(translations) : translations[k].id = id

\* (A merge that pairs results with units by arrival position.)
TranslationMapByArrival(translations, id) ==
    translations[IF id + 1 <= Len(translations) THEN id + 1 ELSE 1].final

TranslationMap(translations, id) ==
    translations[CHOOSE k \in 1..Len(translations) :
                     /\ translations[k].id = id
                     /\ \A j \in (k + 1)..Len(translations) : translations[j].id # id].final

\* s.split('_')[-1]: what follows the last underscore.
RECURSIVE AfterLastUnderscore(_)
AfterLastUnderscore(s) ==
    IF \E k \in 1..Len(s) : s[k] \in UnderscoreTokens
    THEN AfterLastUnderscore(
             SubSeq(s, (CHOOSE k \in 1..Len(s) : s[k] \in UnderscoreTokens /\
                           \A j \in 1..(k - 1) : s[j] \notin UnderscoreTokens) + 1, Len(s)))
    ELSE s

\* Value of a digit string.
RECURSIVE DigitsValue(_)
DigitsValue(d) ==
    IF d = <<>> THEN 0
    ELSE 10 * DigitsValue(SubSeq(d, 1, Len(d) - 1))
         + (CHOOSE n \in 0..9 : Digit[n + 1] = d[Len(d)])

\* int(s): surrounding whitespace is allowed, anything else but digits is a
\* ValueError.
ParseInt(s) ==
    LET d == Strip(s)
    IN IF d # <<>> /\ \A k \in 1..Len(d) : IsDigit(d[k])
       THEN Returned(DigitsValue(d))
       ELSE [raised |-> TRUE, val |-> 0]

\* int(value.split('_')[-1].strip())
TransId(s) == ParseInt(Strip(AfterLastUnderscore(s)))

\* The loop over soup.find_all(text=True); st = [raised, soup].
RECURSIVE MergeTextLoop(_, _, _, _)
MergeTextLoop(st, translations, nodes, k) ==
    IF st.raised \/ k > Len(nodes) THEN st
    ELSE LET tag == NodeAt(st.soup, nodes[k])
             trans_id == TransId(tag.s)
         IN IF ~Contains(tag.s, <<Marker>>)
            THEN MergeTextLoop(st, translations, nodes, k + 1)
            ELSE IF trans_id.raised THEN [raised |-> TRUE, soup |-> st.soup]
            ELSE IF ~HasTranslation(translations, trans_id.val)
                 THEN MergeTextLoop(st, translations, nodes, k + 1)
            ELSE IF ~IsStr(TranslationMap(translations, trans_id.val))
                 THEN [raised |-> TRUE, soup |-> st.soup]   \* replace_with(non-string)
            ELSE MergeTextLoop(
                     [raised |-> FALSE,
                      soup |-> SetAt(st.soup, nodes[k],
                                     Text(TranslationMap(translations, trans_id.val).v))],
                     translations, nodes, k + 1)

\* The inner loop over element.attrs.items() of one element.
RECURSIVE MergeAttrItems(_, _, _, _)
MergeAttrItems(st, translations, p, a) ==
    IF st.raised \/ a > Len(NodeAt(st.soup, p).attrs) THEN st
    ELSE LET element == NodeAt(st.soup, p)
             attr == element.attrs[a].name
             value == element.attrs[a].value
             trans_id == TransId(value)
         IN IF ~Contains(value, <<Marker>>)
            THEN MergeAttrItems(st, translations, p, a + 1)
            ELSE IF trans_id.raised THEN [raised |-> TRUE, soup |-> st.soup]
            ELSE IF ~HasTranslation(translations, trans_id.val)
                 THEN MergeAttrItems(st, translations, p, a + 1)
            ELSE MergeAttrItems(
                     [raised |-> FALSE,
                      soup |-> SetAt(st.soup, p,
                                     SetAttr(element, attr,
                                             TranslationMap(translations, trans_id.val).v))],
                     translations, p, a + 1)

\* soup.find_all(attrs=True): a value of attrs that is not a dictionary is a
\* search on the class attribute, so these are the elements that have one.
FindAllAttrsTrue(soup) == FindAllWithAttr(soup, "class")

RECURSIVE MergeAttrLoop(_, _, _, _)
MergeAttrLoop(st, translations, elements, k) ==
    IF st.raised \/ k > Len(elements) THEN st
    ELSE MergeAttrLoop(MergeAttrItems(st, translations, elements[k], 1),
                       translations, elements, k + 1)

\* translator.py _merge_translations
MergeTranslationsOrig(processed_html, translations) ==
    LET soup == Parse(processed_html)
        st1 == MergeTextLoop([raised |-> FALSE, soup |-> soup], translations,
                             FindAllText(soup), 1)
        st2 == MergeAttrLoop(st1, translations, FindAllAttrsTrue(st1.soup), 1)
    IN IF st2.raised THEN Raised ELSE Returned(Str(Serialize(st2.soup)))


(***************************************************************************)
(* Inputs: the documents main can find, and the ways the services can      *)
(* behave for one unit.                                                    *)
(***************************************************************************)
P(s) == Elem("p", <<>>, <<Text(s)>>)

\* <p> Hello </p>
DocPadded == Serialize(<<P(<<" ", "Hello", " ">>)>>)
\* <p>Hello</p><h1>World</h1>
DocOrder == Serialize(<<P(<<"Hello">>), Elem("h1", <<>>, <<Text(<<"World">>)>>)>>)
\* <div><p>Hello</p></div>
DocNested == Serialize(<<Elem("div", <<>>, <<P(<<"Hello">>)>>)>>)
\* <p title="Hi">Hello</p>
DocAttr == Serialize(<<Elem("p", <<Attr("title", <<"Hi">>)>>, <<Text(<<"Hello">>)>>)>>)
\* <section>Hello</section>: nothing to translate
DocPlain == Serialize(<<Elem("section", <<>>, <<Text(<<"Hello">>)>>)>>)
\* <section>TRANSLATION_ID_0</section>: nothing to translate, marker-like text
DocMarker == Serialize(<<Elem("section", <<>>, <<Text(<<Marker, "0">>)>>)>>)
\* <!-- TRANSLATION_ID_0 --><p>World</p>: a comment of the author's
DocComment == Serialize(<<Comment(<<" ", Marker, "0", " ">>), P(<<"World">>)>>)
\* <p> </p><section alt=""></section>
DocBlank == Serialize(<<P(<<" ">>), Elem("section", <<Attr("alt", <<>>)>>, <<>>)>>)

Docs == {DocPadded, DocOrder, DocNested, DocAttr, DocPlain, DocMarker, DocComment,
         DocBlank}

\* Number of units a fresh processor extracts from the document.
UnitCount(doc) == Len(ExtractTranslatable(doc, <<>>, 0).translation_data)

Quote == "\""

\* Arbitration answers: JSON text as the model returns it.
JsonObject1(key, text) == <<"{", Quote, key, Quote, ":", " ", Quote>> \o text \o <<Quote, "}">>

\* {"content": "gpt:...", "chosen_translation": "gpt:..."}
ReplyBoth(text) ==
    <<"{", Quote, "content", Quote, ":", " ", Quote>> \o ArbText(text)
    \o <<Quote, ",", " ", Quote, "chosen_translation", Quote, ":", " ", Quote>>
    \o ArbText(text) \o <<Quote, "}">>
\* {"translation": "gpt:..."}
ReplyOtherKey(text) == JsonObject1("translation", ArbText(text))
\* {"content": null, "chosen_translation": null}
ReplyNull ==
    <<"{", Quote, "content", Quote, ":", " ", "null", ",", " ",
      Quote, "chosen_translation", Quote, ":", " ", "null", "}">>

Env(libre, deepl, status, content) ==
    [libre |-> libre, deepl |-> deepl, arb |-> [status |-> status, content |-> content]]

\* No call made yet.
NoEnv == Env("none", "none", "none", <<>>)

\* Every call of the unit fails.
EnvDown == Env("fail", "fail", "unreachable", <<>>)

\* LibreTranslate has answered; the DeepL request never returns.
EnvHung == Env("ok", "hung", "none", <<>>)

\* The behaviours the pipeline is run against, for a unit of that content:
\* all services answer well; every call fails; the arbitration answers with
\* an object that lacks the expected keys; the arbitration answers null.
PipelineEnvs(text) ==
    {Env("ok", "ok", "content", ReplyBoth(text)),
     EnvDown,
     Env("ok", "ok", "content", ReplyOtherKey(text)),
     Env("ok", "ok", "content", ReplyNull)}

\* More arbitration answers.
\* gpt:... (no JSON at all)
ReplyText(text) == ArbText(text)
\* []
ReplyList == <<"[", "]">>
\* {"content": 1}
ReplyNumber == <<"{", Quote, "content", Quote, ":", " ", "1", "}">>
\* Sure: {"content": "gpt:..."}
ReplyWrapped(text) == <<"Sure", ":", " ">> \o JsonObject1("content", ArbText(text))
\* {"content": "gpt:..."}
ReplyContent(text) == JsonObject1("content", ArbText(text))
\* {"combined_version": "gpt:..."}
ReplyCombined(text) == JsonObject1("combined_version", ArbText(text))
\* {"chosen_translation": "gpt:..."}
ReplyChosen(text) == JsonObject1("chosen_translation", ArbText(text))

\* The ways the arbitration call can end for a unit of that content.
ArbOutcomes(text) ==
    {[status |-> "unreachable", content |-> <<>>],
     [status |-> "no_choices", content |-> <<>>]}
    \cup {[status |-> "content", content |-> c] :
             c \in {ReplyBoth(text), ReplyOtherKey(text), ReplyNull, ReplyText(text),
                    ReplyList, ReplyNumber, ReplyWrapped(text), ReplyContent(text),
                    ReplyCombined(text), ReplyChosen(text)}}

\* Every combination of provider outcomes and arbitration outcomes.
ItemEnvs(text) ==
    {[libre |-> l, deepl |-> d, arb |-> a] :
        l \in {"ok", "fail"}, d \in {"ok", "fail"}, a \in ArbOutcomes(text)}

\* Units as extraction creates them: the text and the attribute of
\* <p title="Hi">Hello</p>, the text of <p> Hello </p>.
ItemUnits ==
    LET a == ExtractTranslatable(DocAttr, <<>>, 0).translation_data
        b == ExtractTranslatable(DocPadded, <<>>, 0).translation_data
    IN {a[k] : k \in 1..Len(a)} \cup {b[k] : k \in 1..Len(b)}

(***************************************************************************)
(* The run: main, and process_file for the current file.                   *)
(***************************************************************************)
VARIABLES
    version,          \* which script runs: "orig" or "fixed"
    translation_data, \* HTMLTranslationProcessor.translation_data
    current_id,       \* HTMLTranslationProcessor.current_id
    stage,            \* where process_file is: IDLE (main, between files),
                      \* EXTRACTED, DISPATCHED, COLLECTED, MERGED, RAISED; EXITED
    html_content,     \* process_file: the file as read
    processed_html,   \* extraction_result['processed_html']
    base,             \* len(translation_data) when this file's extraction began
    pending,          \* positions in translation_data whose task has not finished
    env,              \* how the services behaved for each finished task
    results,          \* process_file: results, in the order they were collected
    output,           \* the output file: [written, html]
    files_done,       \* main: files handed to process_file so far
    translations,     \* main: len(translations)
    exit_code,        \* main's return value (-1 while running)
    history,          \* per extract_translatable call so far: its input and the ids returned
    call              \* a provider call followed request by request (NoCall otherwise)

vars == <<version, translation_data, current_id, stage, html_content, processed_html,
          base, pending, env, results, output, files_done, translations, exit_code,
          history, call>>

\* No provider call is followed.
NoCall == [fn |-> "none"]

NoOutput == [written |-> FALSE, html |-> <<>>]
Written(html) == [written |-> TRUE, html |-> html]

Ids(data) == [k \in 1..Len(data) |-> data[k].id]

Init ==
    /\ version \in {"orig", "fixed"}
    /\ translation_data = <<>>
    /\ current_id = 0
    /\ stage = "IDLE"
    /\ html_content = <<>>
    /\ processed_html = <<>>
    /\ base = 0
    /\ pending = {}
    /\ env = <<>>
    /\ results = <<>>
    /\ output = NoOutput
    /\ files_done = 0
    /\ translations = 0
    /\ exit_code = -1
    /\ history = <<>>
    /\ call = NoCall

\* process_file up to and including extract_translatable.
ProcessFile(doc) ==
    /\ stage = "IDLE"
    /\ files_done < MaxFiles
    /\ Len(translation_data) + UnitCount(doc) <= MaxUnits
    /\ LET r == ExtractTranslatable(doc, translation_data, current_id)
       IN /\ translation_data' = r.translation_data
          /\ current_id' = r.current_id
          /\ processed_html' = r.processed_html
          /\ history' = Append(history, [html |-> doc, ids |-> Ids(r.translation_data)])
    /\ html_content' = doc
    /\ base' = Len(translation_data)
    /\ stage' = "EXTRACTED"
    /\ UNCHANGED <<call, version, pending, env, results, output, files_done, translations,
                   exit_code>>

\* translator_fixed.py: `if not extraction_result['translation_data']`
NothingToTranslate == version = "fixed" /\ translation_data = <<>>

\* translator.py: the executor.submit of every item; translator_fixed.py: the
\* short-circuit for an empty list, else entry into the loop.
Dispatch ==
    /\ stage = "EXTRACTED"
    /\ IF NothingToTranslate
       THEN /\ output' = Written(html_content)
            /\ stage' = "MERGED"
            /\ UNCHANGED <<pending, env>>
       ELSE /\ pending' = 1..Len(translation_data)
            /\ env' = [k \in 1..Len(translation_data) |-> NoEnv]
            /\ stage' = IF translation_data = <<>> THEN "COLLECTED" ELSE "DISPATCHED"
            /\ UNCHANGED output
    /\ results' = <<>>
    /\ UNCHANGED <<call, version, translation_data, current_id, html_content, processed_html,
                   base, files_done, translations, exit_code, history>>

\* translator_fixed.py process_file, body of the loop over the items: the
\* except branch appends the original content.
TranslateOrFallback(item, e) ==
    IF TranslateItemFixed(item, e).raised
    THEN Entry(item.id, Str(item.content))
    ELSE TranslateItemFixed(item, e).val

\* The result of one unit's task, as it is appended to results.
TaskResult(item, e) ==
    IF version = "orig" THEN TranslateItemOrig(item, e).val
    ELSE TranslateOrFallback(item, e)

\* (A loop whose except branch appends nothing.)
CollectResultSkipFailed(rs, item, e) ==
    IF version = "fixed" /\ TranslateItemFixed(item, e).raised THEN rs
    ELSE Append(rs, TaskResult(item, e))

\* results after one more task: translator.py collects f.result() of the
\* future that completed, translator_fixed.py appends in the loop body.
CollectResult(rs, item, e) == Append(rs, TaskResult(item, e))

\* Which task may finish next: any running one in the thread pool of
\* translator.py, the first remaining one in the loop of translator_fixed.py;
\* never one that waits for a request that does not return.
MayFinish(i) ==
    /\ i \in pending
    /\ env[i] = NoEnv
    /\ version = "fixed" => \A j \in pending : i <= j

\* One unit's task runs to its end and its result is collected.
Translate(i, e) ==
    /\ stage = "DISPATCHED"
    /\ MayFinish(i)
    /\ results' = CollectResult(results, translation_data[i], e)
    /\ env' = [env EXCEPT ![i] = e]
    /\ pending' = pending \ {i}
    /\ stage' = IF pending' = {} THEN "COLLECTED" ELSE "DISPATCHED"
    /\ UNCHANGED <<call, version, translation_data, current_id, html_content, processed_html,
                   base, output, files_done, translations, exit_code, history>>

\* _merge_translations of the running script.
MergeTranslations(html, translations_) ==
    IF version = "orig" THEN MergeTranslationsOrig(html, translations_)
    ELSE MergeTranslationsFixed(html, translations_)

\* (A merge that does not wait for the last results.)
MergeEarly ==
    /\ stage \in {"DISPATCHED", "COLLECTED"}
    /\ LET merged_html == MergeTranslations(processed_html, results)
       IN IF merged_html.raised
          THEN stage' = "RAISED" /\ UNCHANGED output
          ELSE stage' = "MERGED" /\ output' = Written(merged_html.val.v)
    /\ UNCHANGED <<call, version, translation_data, current_id, html_content, processed_html,
                   base, pending, env, results, files_done, translations, exit_code,
                   history>>

\* process_file from _merge_translations to the write of the output file.
Merge ==
    /\ stage = "COLLECTED"
    /\ LET merged_html == MergeTranslations(processed_html, results)
       IN IF merged_html.raised
          THEN stage' = "RAISED" /\ UNCHANGED output
          ELSE stage' = "MERGED" /\ output' = Written(merged_html.val.v)
    /\ UNCHANGED <<call, version, translation_data, current_id, html_content, processed_html,
                   base, pending, env, results, files_done, translations, exit_code,
                   history>>

\* main: process_file returned (translations[file] = result) or raised (the
\* except branch); on to the next file.
Return ==
    /\ stage \in {"MERGED", "RAISED"}
    /\ translations' = IF stage = "MERGED" THEN translations + 1 ELSE translations
    /\ files_done' = files_done + 1
    /\ stage' = "IDLE"
    /\ html_content' = <<>>
    /\ processed_html' = <<>>
    /\ base' = 0
    /\ pending' = {}
    /\ env' = <<>>
    /\ results' = <<>>
    /\ output' = NoOutput
    /\ UNCHANGED <<call, version, translation_data, current_id, exit_code, history>>

\* main returns: 1 when there was no file to translate, else 0.
Exit ==
    /\ stage = "IDLE"
    /\ exit_code' = IF files_done = 0 THEN 1 ELSE 0
    /\ stage' = "EXITED"
    /\ UNCHANGED <<call, version, translation_data, current_id, html_content, processed_html,
                   base, pending, env, results, output, files_done, translations, history>>

Next ==
    \/ \E doc \in Docs : ProcessFile(doc)
    \/ Dispatch
    \/ \E i \in 1..Len(translation_data) :
           \E e \in PipelineEnvs(translation_data[i].content) : Translate(i, e)
    \/ Merge
    \/ Return
    \/ Exit

Spec == Init /\ [][Next]_vars

(***************************************************************************)
(* The run when a request may stay without answer.  translator.py posts to *)
(* DeepL and to the arbitration without a timeout; translator_fixed.py     *)
(* gives every request one.                                                *)
(***************************************************************************)
\* The task of unit i sends a request that never returns.
Hang(i) ==
    /\ stage = "DISPATCHED"
    /\ version = "orig"
    /\ MayFinish(i)
    /\ env' = [env EXCEPT ![i] = EnvHung]
    /\ UNCHANGED <<call, version, translation_data, current_id, stage, html_content,
                   processed_html, base, pending, results, output, files_done,
                   translations, exit_code, history>>

\* The task of unit i runs to its end: the steps Translate(i, e), told by
\* what they do to pending.
TaskEnds(i) ==
    /\ stage = "DISPATCHED"
    /\ MayFinish(i)
    /\ pending' = pending \ {i}

NextHang ==
    \/ Next
    \/ \E i \in 1..Len(translation_data) : Hang(i)

\* Fair scheduling: every task whose requests return runs to its end.
SpecHang ==
    /\ Init
    /\ [][NextHang]_vars
    /\ \A i \in 1..MaxUnits : WF_pending(TaskEnds(i))

(***************************************************************************)
(* One call of _translate_item, for every unit and every behaviour of the  *)
(* services.  stage: ITEM (before the call), ITEM_RETURNED, ITEM_RAISED;   *)
(* results holds the returned entry.                                       *)
(***************************************************************************)
InitItem ==
    /\ version \in {"orig", "fixed"}
    /\ \E item \in ItemUnits :
           /\ translation_data = <<item>>
           /\ env \in {<<e>> : e \in ItemEnvs(item.content)}
    /\ current_id = 0
    /\ stage = "ITEM"
    /\ html_content = <<>>
    /\ processed_html = <<>>
    /\ base = 0
    /\ pending = {1}
    /\ results = <<>>
    /\ output = NoOutput
    /\ files_done = 0
    /\ translations = 0
    /\ exit_code = -1
    /\ history = <<>>
    /\ call = NoCall

\* _translate_item of the running script.
TranslateItem(item, e) ==
    IF version = "orig" THEN TranslateItemOrig(item, e) ELSE TranslateItemFixed(item, e)

\* The calls it makes, and what it hands to the arbitration.
Calls(item, e) ==
    IF version = "orig" THEN CallsOrig(item, e) ELSE CallsFixed(item, e)

ResolveArgs(item, e) ==
    IF version = "orig" THEN ResolveArgsOrig(item, e) ELSE ResolveArgsFixed(item, e)

TranslateItemStep ==
    /\ stage = "ITEM"
    /\ LET r == TranslateItem(translation_data[1], env[1])
       IN IF r.raised
          THEN stage' = "ITEM_RAISED" /\ UNCHANGED results
          ELSE stage' = "ITEM_RETURNED" /\ results' = <<r.val>>
    /\ pending' = {}
    /\ UNCHANGED <<call, version, translation_data, current_id, html_content, processed_html,
                   base, env, output, files_done, translations, exit_code, history>>

NextItem == TranslateItemStep

SpecItem == InitItem /\ [][NextItem]_vars

(***************************************************************************)
(* One call of a provider, request by request: translate_with_libre (the   *)
(* pool of LibreTranslate servers) and translate_with_deepl (the keyed     *)
(* service).  Time is counted in ticks of 5 s, the sleep between two       *)
(* passes over the pool.                                                   *)
(***************************************************************************)
PoolSize == 2          \* servers in LIBRETRANSLATE_SERVERS (five in the scripts)
MaxRequestTicks == 1   \* the longest a request takes, in ticks (timeout=30: 6)

MaxRetries == 5
BaseDelay == 2
ErrorsShown == 10

\* max_retry_minutes * 60 s in ticks (120 in the script): here the shortest
\* deadline before which the pool can fail more than ErrorsShown times.
MaxRetryTicks == ErrorsShown \div PoolSize + 1

LIBRETRANSLATE_SERVERS == [k \in 1..PoolSize |-> k]

KeyTranslatedText == <<"translatedText">>
KeyTranslations == <<"translations">>
KeyText == <<"text">>

\* What a request can come back with: an exception of session.post, or a
\* response with a status code and a body, which is JSON (data) or is not.
PostRaises == [kind |-> "exception", status |-> 0, data |-> Null]
NotJson(status) == [kind |-> "notjson", status |-> status, data |-> Null]
Json(status, data) == [kind |-> "json", status |-> status, data |-> data]

\* An outcome of a call or request: a value returned or an exception raised.
Ok(val) == [raised |-> FALSE, val |-> val, error |-> "none"]
Error(error) == [raised |-> TRUE, val |-> Null, error |-> error]

\* (random.choices in place of random.sample: servers may repeat.)
Choices(urls) == [1..Len(urls) -> {urls[k] : k \in 1..Len(urls)}]

\* random.sample(urls, len(urls)): the orders of the pool.
Shuffles(urls) ==
    {s \in [1..Len(urls) -> {urls[k] : k \in 1..Len(urls)}] :
        \A i, j \in 1..Len(urls) : s[i] = s[j] => i = j}

\* (Every error, however many.)
AllErrors(errors) == errors

\* errors[-10:]
LastErrors(errors) ==
    IF Len(errors) <= ErrorsShown THEN errors
    ELSE SubSeq(errors, Len(errors) - ErrorsShown + 1, Len(errors))

\* (A reading of the body that takes a missing translatedText as no text.)
LibreAnswerLenient(resp) ==
    CASE resp.kind = "exception" -> Error("RequestException")
      [] resp.status # 200       -> Error("HTTP")
      [] resp.kind = "notjson"   -> Error("JSONDecodeError")
      [] resp.data.t # "obj"     -> Error("TypeError")
      [] OTHER -> IF HasKey(resp.data, KeyTranslatedText)
                  THEN Ok(Get(resp.data, KeyTranslatedText))
                  ELSE Ok(Str(<<>>))

\* The body of the for loop of translate_with_libre up to the return or the
\* errors.append: the request, the status check, response.json()['translatedText'].
LibreAnswer(resp) ==
    CASE resp.kind = "exception" -> Error("RequestException")
      [] resp.status # 200       -> Error("HTTP")
      [] resp.kind = "notjson"   -> Error("JSONDecodeError")
      [] resp.data.t # "obj"     -> Error("TypeError")
      [] OTHER -> IF HasKey(resp.data, KeyTranslatedText)
                  THEN Ok(Get(resp.data, KeyTranslatedText))
                  ELSE Error("KeyError")

\* x[0]['text'] for translations x
FirstText(x) ==
    CASE x.t = "list" ->
             IF x.f = <<>> THEN Error("IndexError")
             ELSE IF x.f[1].t # "obj" THEN Error("TypeError")
             ELSE IF HasKey(x.f[1], KeyText) THEN Ok(Get(x.f[1], KeyText))
             ELSE Error("KeyError")
      [] x.t = "obj" -> Error("KeyError")
      [] OTHER -> Error("TypeError")

\* The try block of translate_with_deepl: the request, response.json(), the
\* check of the format and data['translations'][0]['text'].  translator.py
\* also refuses translations that are empty.
DeeplAnswer(v, resp) ==
    CASE resp.kind = "exception" -> Error("RequestException")
      [] resp.kind = "notjson"   -> Error("JSONDecodeError")
      [] resp.data.t = "obj" ->
             IF ~HasKey(resp.data, KeyTranslations) THEN Error("ValueError")
             ELSE IF v = "orig" /\ ~Truthy(Get(resp.data, KeyTranslations))
                  THEN Error("ValueError")
             ELSE FirstText(Get(resp.data, KeyTranslations))
      [] resp.data.t \in {"list", "str"} -> Error("ValueError")
      [] OTHER -> Error("TypeError")

\* What the servers of the pool may answer to a request for text.
LibreGood(text) == Json(200, Obj(<<Pair(KeyTranslatedText, Str(LibreText(text)))>>))
LibreNoText == Json(200, Obj(<<Pair(<<"error">>, Str(<<"Slowdown">>))>>))
LibreBusy == Json(500, Obj(<<Pair(<<"error">>, Str(<<"Busy">>))>>))
LibreResponses(text) == {LibreGood(text), LibreNoText, LibreBusy, PostRaises}

\* What the keyed service may answer.
DeeplGood(text) ==
    Json(200, Obj(<<Pair(KeyTranslations,
                         List(<<Obj(<<Pair(KeyText, Str(DeeplText(text)))>>)>>))>>))
DeeplNoTranslations == Json(403, Obj(<<Pair(<<"message">>, Str(<<"Forbidden">>))>>))
DeeplEmptyList == Json(200, Obj(<<Pair(KeyTranslations, List(<<>>))>>))
DeeplNoText == Json(200, Obj(<<Pair(KeyTranslations, List(<<Obj(<<>>)>>))>>))
DeeplResponses(text) ==
    {DeeplGood(text), DeeplNoTranslations, DeeplEmptyList, DeeplNoText,
     NotJson(502), PostRaises}

\* The text the followed call is about.
CallText == <<"Hello">>

\* (A delay that grows by base_delay at each attempt.)
Times(b, n) == b * n

\* base_delay ** n
RECURSIVE Power(_, _)
Power(b, n) == IF n = 0 THEN 1 ELSE b * Power(b, n - 1)

\* (Giving up after the second attempt.)
LastAttemptEarly(attempt) == attempt >= 1

\* attempt == max_retries - 1
LastAttempt(attempt) == attempt = MaxRetries - 1

\* translate_with_libre at its first line.  fault is what a server that
\* fails comes back with during this call.
LibreCall(fault) ==
    [fn |-> "libre", pc |-> "while", now |-> 0, errors |-> <<>>,
     shuffled_servers |-> <<>>, tried |-> <<>>, pass |-> 0, slept |-> 0,
     requests |-> 0, last |-> PostRaises, fault |-> fault,
     result |-> Error("none")]

\* translate_with_deepl at its first line.
DeeplCall ==
    [fn |-> "deepl", pc |-> "request", attempt |-> 0, requests |-> 0,
     failures |-> 0, delays |-> <<>>, last |-> PostRaises,
     result |-> Error("none")]

\* The exception translate_with_libre ends with, and the errors in its message.
LibreRaise(v, errors) ==
    [raised |-> TRUE, val |-> Null, error |-> "Exception",
     errors |-> IF v = "orig" THEN errors ELSE LastErrors(errors)]

\* The head of a pass.  translator_fixed.py: the test of the while loop and
\* the shuffle.  translator.py: the shuffle, once.
LibreWhile ==
    /\ call.fn = "libre"
    /\ call.pc = "while"
    /\ IF version = "fixed" /\ ~(call.now < MaxRetryTicks)
       THEN call' = [call EXCEPT !.pc = "raised",
                                 !.result = LibreRaise(version, call.errors)]
       ELSE \E s \in Shuffles(LIBRETRANSLATE_SERVERS) :
                call' = [call EXCEPT !.pc = "request", !.shuffled_servers = s,
                                     !.tried = <<>>, !.pass = @ + 1]
    /\ UNCHANGED <<version, translation_data, current_id, stage, html_content,
                   processed_html, base, pending, env, results, output, files_done,
                   translations, exit_code, history>>

\* One turn of the for loop: the request to the next server, which takes
\* ticks of time and comes back with resp; the return, or the error recorded;
\* translator_fixed.py: the test of the deadline that leaves the loop.
\* After the loop translator.py raises and translator_fixed.py sleeps.
LibreTurn(c, v, resp, ticks) ==
    LET server == c.shuffled_servers[Len(c.tried) + 1]
        answer == LibreAnswer(resp)
        asked == [c EXCEPT !.tried = Append(@, server), !.requests = @ + 1,
                           !.last = resp, !.now = @ + ticks]
        failed == [asked EXCEPT !.errors = Append(@, [server |-> server,
                                                       error |-> answer.error])]
        over == \/ Len(failed.tried) = Len(c.shuffled_servers)
                \/ v = "fixed" /\ failed.now >= MaxRetryTicks
    IN IF ~answer.raised
       THEN [asked EXCEPT !.pc = "returned", !.result = answer]
       ELSE IF ~over THEN failed
       ELSE IF v = "orig"
            THEN [failed EXCEPT !.pc = "raised",
                                !.result = LibreRaise(v, failed.errors)]
       ELSE [failed EXCEPT !.pc = "sleep"]

LibreRequest ==
    /\ call.fn = "libre"
    /\ call.pc = "request"
    /\ \E resp \in {LibreGood(CallText), call.fault}, ticks \in 0..MaxRequestTicks :
           call' = LibreTurn(call, version, resp, ticks)
    /\ UNCHANGED <<version, translation_data, current_id, stage, html_content,
                   processed_html, base, pending, env, results, output, files_done,
                   translations, exit_code, history>>

\* print(...) and time.sleep(5) at the end of a pass.
LibreSleep ==
    /\ call.fn = "libre"
    /\ call.pc = "sleep"
    /\ call' = [call EXCEPT !.pc = "while", !.now = @ + 1, !.slept = @ + 1]
    /\ UNCHANGED <<version, translation_data, current_id, stage, html_content,
                   processed_html, base, pending, env, results, output, files_done,
                   translations, exit_code, history>>

\* One attempt of translate_with_deepl that comes back with resp: the return,
\* or the except clause, which raises at the last attempt and otherwise
\* computes the delay.  translator.py makes one attempt and catches nothing.
DeeplTurn(c, v, resp) ==
    LET answer == DeeplAnswer(v, resp)
        asked == [c EXCEPT !.requests = @ + 1, !.last = resp]
        failed == [asked EXCEPT !.failures = @ + 1]
    IN IF ~answer.raised
       THEN [asked EXCEPT !.pc = "returned", !.result = answer]
       ELSE IF v = "orig" \/ LastAttempt(c.attempt)
            THEN [failed EXCEPT !.pc = "raised", !.result = answer]
       ELSE [failed EXCEPT !.pc = "sleep",
                           !.delays = Append(@, Power(BaseDelay, c.attempt + 1))]

DeeplRequest ==
    /\ call.fn = "deepl"
    /\ call.pc = "request"
    /\ \E resp \in DeeplResponses(CallText) :
           call' = DeeplTurn(call, version, resp)
    /\ UNCHANGED <<version, translation_data, current_id, stage, html_content,
                   processed_html, base, pending, env, results, output, files_done,
                   translations, exit_code, history>>

\* time.sleep(delay), and the next attempt of the for loop.
DeeplSleep ==
    /\ call.fn = "deepl"
    /\ call.pc = "sleep"
    /\ call' = [call EXCEPT !.pc = "request", !.attempt = @ + 1]
    /\ UNCHANGED <<version, translation_data, current_id, stage, html_content,
                   processed_html, base, pending, env, results, output, files_done,
                   translations, exit_code, history>>

\* A call of either provider, by either script, for CallText.
InitProvider ==
    /\ version \in {"orig", "fixed"}
    /\ call \in {DeeplCall} \cup
                {LibreCall(f) : f \in LibreResponses(CallText) \ {LibreGood(CallText)}}
    /\ translation_data = <<>>
    /\ current_id = 0
    /\ stage = "CALL"
    /\ html_content = <<>>
    /\ processed_html = <<>>
    /\ base = 0
    /\ pending = {}
    /\ env = <<>>
    /\ results = <<>>
    /\ output = NoOutput
    /\ files_done = 0
    /\ translations = 0
    /\ exit_code = -1
    /\ history = <<>>

NextProvider ==
    \/ LibreWhile
    \/ LibreRequest
    \/ LibreSleep
    \/ DeeplRequest
    \/ DeeplSleep

\* Python goes on with a call that is not finished.
SpecProvider == InitProvider /\ [][NextProvider]_vars /\ WF_vars(NextProvider)

(***************************************************************************)
(* Properties.                                                             *)
(***************************************************************************)
\* The units extracted from the file in hand (positions in translation_data).
OwnUnits == (base + 1)..Len(translation_data)

\* process_file has come to its end for the file in hand.
Finished == stage \in {"MERGED", "RAISED"}

\* The placeholder of a unit as it stands in the serialised document.
PlaceholderInHtml(id) == Escape(PlaceholderTemplate(id))

\* What stands at a unit's location in a document: the attribute's value, or
\* the string of the unit's element.
UnitText(soup, unit) ==
    IF unit.type = "attribute"
    THEN GetAttr(NodeAt(soup, unit.elem), unit.attribute)
    ELSE IF StringPath(soup, unit.elem) = <<>> THEN <<>>
         ELSE NodeAt(soup, StringPath(soup, unit.elem)).s

\* The final text collected for a unit.
FinalFor(id) == TranslationMap(results, id)

\* Every unit given its own recorded content as its final text.
OriginalResults ==
    [k \in 1..Len(translation_data) |->
        Entry(translation_data[k].id, Str(translation_data[k].content))]

\* C1 (round trip): after extraction, merging the processed document with
\* every unit's own recorded content as its final text gives back the input
\* document.
C1_RoundTrip ==
    stage = "EXTRACTED" /\ OwnUnits # {} =>
        LET m == MergeTranslations(processed_html, OriginalResults)
        IN ~m.raised /\ m.val.v = html_content

\* C2 (per-unit failure isolation): when every provider call of a unit u of
\* the file fails, process_file still writes a merged document, in which u's
\* location holds the sentinel or u's original content and the location of
\* every other unit holds the final text produced for that unit.
C2_FailureIsolation ==
    Finished =>
        \A u \in OwnUnits :
            env[u] = EnvDown =>
                /\ stage = "MERGED"
                /\ UnitText(Parse(output.html), translation_data[u])
                       \in {Sentinel, translation_data[u].content}
                /\ \A v \in OwnUnits \ {u} :
                       UnitText(Parse(output.html), translation_data[v])
                           = FinalFor(translation_data[v].id).v

\* The results as a sequential run over the items collects them, the
\* services behaving for each unit as they did.
SequentialResults ==
    [k \in 1..Len(translation_data) |-> TaskResult(translation_data[k], env[k])]

\* C3 (completion-order independence): whatever the order in which the
\* tasks' results were collected, process_file ends as it ends on the results
\* in item order: it raises when the merge of those raises, and else writes
\* the same merged document.
C3_OrderIndependent ==
    Finished /\ ~NothingToTranslate =>
        LET seq == MergeTranslations(processed_html, SequentialResults)
        IN /\ stage = "RAISED" <=> seq.raised
           /\ stage = "MERGED" => output.html = seq.val.v

\* C3's case: translator.py wrote a merged document in which a substitution
\* was made, the results having been collected against the item order.
C3_Witness ==
    /\ version = "orig"
    /\ stage = "MERGED"
    /\ Len(results) = 2
    /\ results[1].id > results[2].id
    /\ output.html # processed_html

\* C4 (merge totality): after the merge, the location of every unit whose
\* placeholder stands in the processed document holds the unit's final text
\* when a result exists for it and the sentinel otherwise, and the
\* placeholder is gone from the merged document.
C4_MergeTotality ==
    Finished =>
        \A k \in OwnUnits :
            LET unit == translation_data[k]
            IN Contains(processed_html, PlaceholderInHtml(unit.id)) =>
                   /\ stage = "MERGED"
                   /\ ~Contains(output.html, PlaceholderInHtml(unit.id))
                   /\ ~Contains(output.html, PlaceholderTemplate(unit.id))
                   /\ UnitText(Parse(output.html), unit)
                          = IF HasTranslation(results, unit.id)
                            THEN FinalFor(unit.id).v ELSE Sentinel

\* C5 (placeholder-unit bijection): after extraction the processed document
\* holds as many placeholders as there are returned units, the placeholder
\* of every returned unit exactly once, and the ids are pairwise distinct.
C5_PlaceholderBijection ==
    stage = "EXTRACTED" =>
        /\ Count(processed_html, <<"&lt;!--", " ", Marker>>) = Len(translation_data)
        /\ \A k \in 1..Len(translation_data) :
               Count(processed_html, PlaceholderInHtml(translation_data[k].id)) = 1
        /\ \A k, j \in 1..Len(translation_data) :
               translation_data[k].id = translation_data[j].id => k = j

\* C6 (id stability): two calls of extract_translatable on the same input
\* return the same sequence of ids, a second call on the same processor
\* included, and the ids of each call are pairwise distinct.
C6_IdStability ==
    /\ \A i, j \in 1..Len(history) :
           history[i].html = history[j].html => history[i].ids = history[j].ids
    /\ \A i \in 1..Len(history) :
           \A k, j \in 1..Len(history[i].ids) :
               history[i].ids[k] = history[i].ids[j] => k = j

\* C7 (no state leak between documents): the units process_file works on,
\* and the results it collects, are those extracted from the file in hand.
C7_NoStateLeak ==
    stage \in {"EXTRACTED", "DISPATCHED", "COLLECTED", "MERGED", "RAISED"} =>
        /\ \A k \in 1..Len(translation_data) : k \in OwnUnits
        /\ \A j \in 1..Len(results) :
               \E k \in OwnUnits : translation_data[k].id = results[j].id

\* Where a unit stands in the input document: an attribute at its element's
\* start tag, a text at its string.
LocPath(unit) ==
    IF unit.type = "attribute" THEN unit.elem
    ELSE StringPath(Parse(html_content), unit.elem)

\* Document order of two places: p is an ancestor of q, or p lies before q
\* where they part.
Precedes(p, q) ==
    \/ Len(p) < Len(q) /\ SubSeq(q, 1, Len(p)) = p
    \/ \E i \in 1..Len(p) :
           /\ i <= Len(q)
           /\ SubSeq(p, 1, i - 1) = SubSeq(q, 1, i - 1)
           /\ p[i] < q[i]

\* C8 (ids follow document order): of two units of the file, the one whose
\* location comes first in the document has the smaller id.
C8_DocumentOrder ==
    stage = "EXTRACTED" =>
        \A k, j \in OwnUnits :
            Precedes(LocPath(translation_data[k]), LocPath(translation_data[j]))
                => translation_data[k].id < translation_data[j].id

\* C9 (exactly one result per unit): when process_file reaches the merge,
\* results holds exactly one entry per id of translation_data and no others,
\* and a unit whose calls all failed has its entry, carrying the failure text
\* of the running script: the sentinel in translator.py, the unit's original
\* content in translator_fixed.py.
C9_OneResultPerUnit ==
    stage \in {"COLLECTED", "MERGED", "RAISED"} /\ ~NothingToTranslate =>
        /\ Len(results) = Len(translation_data)
        /\ \A k \in 1..Len(translation_data) :
               /\ Cardinality({j \in 1..Len(results) :
                                  results[j].id = translation_data[k].id}) = 1
               /\ env[k] = EnvDown =>
                      FinalFor(translation_data[k].id)
                          = Str(IF version = "orig" THEN Sentinel
                                ELSE translation_data[k].content)
               /\ (version = "fixed"
                       /\ TranslateItemFixed(translation_data[k], env[k]).raised) =>
                      FinalFor(translation_data[k].id) = Str(translation_data[k].content)

\* C9's case: the merge is reached with two units, the calls of one of which
\* all failed, and in translator_fixed.py with a unit whose task raised.
C9_Witness ==
    /\ stage = "COLLECTED"
    /\ Len(translation_data) = 2
    /\ \E k \in 1..2 : env[k] = EnvDown
    /\ version = "fixed" =>
           \E k \in 1..2 : TranslateItemFixed(translation_data[k], env[k]).raised

\* C10 (resolver totality): in translator_fixed.py, whatever the arbitration
\* answers, _translate_item does not raise and the final it yields is a
\* string.
C10_ResolverTotality ==
    version = "fixed" =>
        \A k \in 1..Len(env) :
            env[k] # NoEnv =>
                LET r == TranslateItemFixed(translation_data[k], env[k])
                IN ~r.raised /\ IsStr(r.val.final)

\* The call of _translate_item has ended.
ItemDone == stage \in {"ITEM_RETURNED", "ITEM_RAISED"}

\* The arbitration gave no answer: the request failed, the body had no
\* choices, or the answer is neither JSON nor holds a content pattern.
ArbUnavailable(a) ==
    \/ a.status # "content"
    \/ ~JsonLoads(Strip(a.content)).ok /\ ~SearchContentPattern(Strip(a.content), 1).found

\* The field of the arbitration's answer that the running script reads.
ArbField(a) ==
    LET d == JsonLoads(Strip(a.content)).val
    IN IF version = "fixed" THEN Get(d, KeyContent)
       ELSE IF HasKey(d, KeyCombined) /\ Truthy(Get(d, KeyCombined))
            THEN Get(d, KeyCombined)
       ELSE Get(d, KeyChosen)

\* The arbitration answered a JSON object holding a text in that field.
ArbAnswered(a) ==
    /\ a.status = "content"
    /\ JsonLoads(Strip(a.content)).ok
    /\ JsonLoads(Strip(a.content)).val.t = "obj"
    /\ LET d == JsonLoads(Strip(a.content)).val
       IN IF version = "fixed" THEN HasKey(d, KeyContent)
          ELSE \/ HasKey(d, KeyCombined) /\ Truthy(Get(d, KeyCombined))
               \/ HasKey(d, KeyChosen)
    /\ IsStr(ArbField(a))

\* The provider priority: DeepL's text, else LibreTranslate's, else the
\* original content.
PriorityText(item, e) ==
    IF e.deepl = "ok" THEN DeeplText(item.content)
    ELSE IF e.libre = "ok" THEN LibreText(item.content)
    ELSE item.content

\* C11 (deterministic fallback chain): _translate_item returns, with the
\* arbitration's field as final text when the arbitration answered, and,
\* when it gave no answer, DeepL's text if DeepL succeeded, else
\* LibreTranslate's if it succeeded, else the original content.
C11_FallbackChain ==
    ItemDone =>
        LET item == translation_data[1]
            e == env[1]
        IN /\ ArbUnavailable(e.arb) =>
                  /\ stage = "ITEM_RETURNED"
                  /\ results[1].final = Str(PriorityText(item, e))
           /\ ArbAnswered(e.arb) =>
                  /\ stage = "ITEM_RETURNED"
                  /\ results[1].final = ArbField(e.arb)

\* C12 (provider independence within a unit): whatever the other provider
\* does, a provider that would succeed is called, the arbitration is called,
\* and it is handed that provider's text.
C12_ProviderIndependence ==
    ItemDone =>
        LET item == translation_data[1]
            e == env[1]
        IN /\ e.deepl = "ok" =>
                  /\ "deepl" \in Calls(item, e)
                  /\ ResolveArgs(item, e).called
                  /\ ResolveArgs(item, e).deepl = DeeplText(item.content)
           /\ e.libre = "ok" =>
                  /\ "libre" \in Calls(item, e)
                  /\ ResolveArgs(item, e).called
                  /\ ResolveArgs(item, e).libre = LibreText(item.content)

\* C13 (only parse errors propagate): no exception leaves process_file; it
\* always comes to write a merged document.
C13_OnlyParseErrors == stage # "RAISED"

\* C15 (sentinel on total provider failure): when both providers fail for a
\* unit of the file, the merged output holds [TRANSLATION_ERROR] at the
\* unit's place; and main returns 0 once it has processed a file.
C15_SentinelOnFailure ==
    /\ Finished =>
           \A u \in OwnUnits :
               env[u].libre = "fail" /\ env[u].deepl = "fail" =>
                   /\ stage = "MERGED"
                   /\ UnitText(Parse(output.html), translation_data[u]) = Sentinel
    /\ stage = "EXITED" /\ files_done > 0 => exit_code = 0

\* The service calls made for the file in hand so far.
ServiceCalls ==
    UNION {Calls(translation_data[k], env[k]) :
               k \in {j \in 1..Len(env) : env[j] # NoEnv}}

\* C16 (zero-unit short-circuit): a file from which extraction takes no unit
\* is written out as it was read, without any service call and without an
\* exception, whichever file of the run it is.
C16_ZeroUnitShortCircuit ==
    Finished /\ OwnUnits = {} =>
        /\ stage = "MERGED"
        /\ output.html = html_content
        /\ ServiceCalls = {}

\* The places of the file's units in the input document.
UnitPlaces ==
    {LocPath(translation_data[k]) : k \in OwnUnits}

\* C17 (merge frame condition): every string of the input document that is
\* not the place of a unit stands unchanged, at its place, in the merged
\* document.
C17_MergeFrame ==
    stage = "MERGED" =>
        LET inp == Parse(html_content)
            out == Parse(output.html)
            paths(soup) == {AllPaths(soup)[i] : i \in 1..Len(AllPaths(soup))}
        IN \A p \in paths(inp) :
               IsString(NodeAt(inp, p)) /\ p \notin UnitPlaces =>
                   p \in paths(out) /\ NodeAt(out, p) = NodeAt(inp, p)

\* C18 (unit immutability): the context recorded for a unit of the file is
\* its element's tag and the attribute values the element had in the input
\* document, during extraction and translation alike.
C18_UnitImmutable ==
    stage \in {"EXTRACTED", "DISPATCHED", "COLLECTED", "MERGED", "RAISED"} =>
        \A k \in OwnUnits :
            LET unit == translation_data[k]
                element == NodeAt(Parse(html_content), unit.elem)
            IN unit.context.tag = element.tag /\ unit.context.attrs = element.attrs

\* C19 (empty content is skipped): every unit extraction creates has
\* non-empty content.
C19_NoEmptyUnit ==
    \A k \in 1..Len(translation_data) : translation_data[k].content # <<>>

\* C20 (placeholder survives serialization): after extraction, processed_html
\* holds, for every unit of the file, the token the merge searches for,
\* '<!-- TRANSLATION_ID_n -->'.
C20_PlaceholderSurvives ==
    stage = "EXTRACTED" =>
        \A k \in OwnUnits :
            Contains(processed_html, MergePlaceholder(translation_data[k].id))

\* C14 (no indefinite hang): under fair scheduling, once the tasks of a
\* file are dispatched, process_file comes to the merge, even when a request
\* of one task never returns.
C14_NoIndefiniteHang == (stage = "DISPATCHED") ~> (stage = "COLLECTED")

\* The stage changes process_file and main can make.
StageSteps ==
    {<<"IDLE", "EXTRACTED">>, <<"IDLE", "EXITED">>,
     <<"EXTRACTED", "DISPATCHED">>,
     <<"EXTRACTED", "COLLECTED">>,      \* no task to run
     <<"EXTRACTED", "MERGED">>,         \* translator_fixed.py: nothing to translate
     <<"DISPATCHED", "COLLECTED">>,
     <<"COLLECTED", "MERGED">>, <<"COLLECTED", "RAISED">>,
     <<"MERGED", "IDLE">>, <<"RAISED", "IDLE">>}

\* C25 (stage ordering): process_file goes from EXTRACTED to DISPATCHED to
\* COLLECTED to MERGED and never back; tasks run only in DISPATCHED, after
\* the extraction; the merge starts from COLLECTED only, when no task is
\* left running and every unit has its result.
C25_StageOrdering ==
    [][/\ stage' # stage => <<stage, stage'>> \in StageSteps
       /\ pending' # {} => stage' = "DISPATCHED"
       /\ results' # results => stage = "DISPATCHED" \/ results' = <<>>
       /\ stage = "EXTRACTED" /\ stage' \in {"COLLECTED", "MERGED"} =>
              translation_data = <<>>
       /\ stage' = "COLLECTED" =>
              pending' = {} /\ Len(results') = Len(translation_data')
       /\ stage = "COLLECTED" /\ stage' \in {"MERGED", "RAISED"} =>
              pending = {} /\ Len(results) = Len(translation_data)]_vars

\* C25's case: a file with two units has gone through all the stages.
C25_Witness ==
    stage = "MERGED" /\ Len(results) = 2 /\ Cardinality(OwnUnits) = 2

\* The answer the claim describes for resolve_with_chatgpt.
DefensiveAnswer(deepl, arb) ==
    LET content == Strip(arb.content)
        fallback == Obj(<<Pair(KeyContent, Str(deepl))>>)
    IN IF arb.status # "content" THEN fallback
       ELSE IF JsonLoads(content).ok THEN JsonLoads(content).val
       ELSE IF SearchContentPattern(content, 1).found
            THEN Obj(<<Pair(KeyContent, Str(SearchContentPattern(content, 1).group1))>>)
       ELSE fallback

C27_ArbitrationInputs ==
    ItemDone =>
        LET item == translation_data[1]
            e == env[1]
            args == ResolveArgs(item, e)
        IN args.called =>
               /\ args.libre = IF e.libre = "ok" THEN LibreText(item.content) ELSE <<>>
               /\ args.deepl = IF e.deepl = "ok" THEN DeeplText(item.content) ELSE <<>>

\* C28 (placeholder id round-trip): for the id n of every unit, decoding the
\* placeholder generated for n gives n and does not raise.
C28_PlaceholderIdRoundTrip ==
    \A k \in 1..Len(translation_data) :
        LET n == translation_data[k].id
        IN /\ ~TransId(PlaceholderTemplate(n)).raised
           /\ TransId(PlaceholderTemplate(n)).val = n

\* C29 (extracted content is document content): after extraction no unit's
\* content holds a placeholder, and no text of the document is recorded by
\* two units.
C29_ContentIsDocumentContent ==
    stage = "EXTRACTED" =>
        /\ \A k \in OwnUnits :
               \A n \in 0..current_id :
                   ~Contains(translation_data[k].content, PlaceholderTemplate(n))
        /\ \A k, j \in OwnUnits :
               /\ translation_data[k].type = "text"
               /\ translation_data[j].type = "text"
               /\ LocPath(translation_data[k]) = LocPath(translation_data[j])
               => k = j

\* current_id counts the units: the unit at index i has id i.
CounterInvariant ==
    /\ current_id = Len(translation_data)
    /\ \A k \in 1..Len(translation_data) : translation_data[k].id = k - 1

\* C30 (counter invariant): whatever was extracted so far, current_id is the
\* length of translation_data and the unit at index i has id i; current_id
\* never decreases.
C30_CounterInvariant ==
    [][CounterInvariant /\ CounterInvariant' /\ current_id' >= current_id]_vars

\* C30's case: the second extraction of a run has added a unit to those of
\* the first.
C30_Witness ==
    /\ stage = "EXTRACTED"
    /\ files_done >= 1
    /\ base >= 1
    /\ Len(translation_data) > base

\* The followed call has ended.
CallEnded == call.pc \in {"returned", "raised"}

\* C21 (keyed provider retry bound): translate_with_deepl of
\* translator_fixed.py makes at most five requests; it returns what the first
\* request that succeeds gives and makes no request after it; it raises only
\* when five requests in a row have failed, and raises the error of the last.
C21_KeyedRetryBound ==
    version = "fixed" /\ call.fn = "deepl" =>
        LET answer == DeeplAnswer(version, call.last)
        IN /\ call.requests <= MaxRetries
           /\ call.requests >= 1 /\ ~answer.raised => call.pc = "returned"
           /\ call.pc = "returned" =>
                  /\ ~answer.raised
                  /\ call.result = answer
                  /\ call.failures = call.requests - 1
           /\ call.pc = "raised" =>
                  /\ call.requests = MaxRetries
                  /\ call.failures = MaxRetries
                  /\ answer.raised
                  /\ call.result = answer
           /\ ~CallEnded => call.failures = call.requests

\* C21's case: four requests failed and the fifth succeeded.
C21_Witness ==
    /\ version = "fixed"
    /\ call.fn = "deepl"
    /\ call.pc = "returned"
    /\ call.requests = MaxRetries
    /\ call.result.val = Str(DeeplText(CallText))

\* The servers asked so far in the pass are all different.
TriedOnce(c) ==
    \A i, j \in 1..Len(c.tried) : c.tried[i] = c.tried[j] => i = j

\* C22 (pool provider pass structure): in translate_with_libre of
\* translator_fixed.py a pass asks each server at most once, in the order of
\* a shuffle made for that pass; the first answer that succeeds is returned
\* at once; a new pass begins only when every server has failed in the pass
\* before and the sleep after it is over.
C22_PassStructure ==
    [][version = "fixed" /\ call.fn = "libre" =>
           /\ TriedOnce(call')
           /\ \A k \in 1..Len(call'.tried) :
                  call'.tried[k] = call'.shuffled_servers[k]
           /\ call'.requests > call.requests /\ ~LibreAnswer(call'.last).raised =>
                  /\ call'.pc = "returned"
                  /\ call'.result = LibreAnswer(call'.last)
           /\ call'.pc = "returned" => ~LibreAnswer(call'.last).raised
           /\ call'.pass > call.pass =>
                  /\ call'.shuffled_servers \in Shuffles(LIBRETRANSLATE_SERVERS)
                  /\ call'.tried = <<>>
                  /\ call.pass >= 1 =>
                         /\ {call.tried[k] : k \in 1..Len(call.tried)}
                                = 1..PoolSize
                         /\ Len(call.errors) = PoolSize * call.pass
                         /\ call.slept = call.pass]_vars

\* C22's case: every server failed in the first pass and one answers in the
\* second.
C22_Witness ==
    /\ version = "fixed"
    /\ call.fn = "libre"
    /\ call.pc = "returned"
    /\ call.pass = 2
    /\ Len(call.errors) > PoolSize

\* C23 (pool provider deadline termination): translate_with_libre of
\* translator_fixed.py ends; it starts no request once the deadline has
\* passed; and when it raises, its message holds the last ten errors at most.
C23_DeadlineTermination ==
    /\ <>(version = "fixed" /\ call.fn = "libre" => CallEnded)
    /\ [][version = "fixed" /\ call.fn = "libre" =>
              /\ call'.requests > call.requests => call.now < MaxRetryTicks
              /\ call'.pc = "raised" =>
                     LET shown == call'.result.errors
                         errors == call'.errors
                     IN /\ call'.now >= MaxRetryTicks
                        /\ Len(shown) <= ErrorsShown
                        /\ Len(shown) <= Len(errors)
                        /\ Len(shown) = ErrorsShown \/ Len(shown) = Len(errors)
                        /\ \A k \in 1..Len(shown) :
                               shown[k] = errors[Len(errors) - Len(shown) + k]]_vars

\* C23's case: the deadline has passed after more than ten errors.
C23_Witness ==
    /\ version = "fixed"
    /\ call.fn = "libre"
    /\ call.pc = "raised"
    /\ Len(call.errors) > ErrorsShown

\* Two states of a call that differ at most in the response and the error
\* they record.
SameCourse(a, b) ==
    /\ a.pc = b.pc
    /\ a.requests = b.requests
    /\ a.result.raised = b.result.raised
    /\ a.fn = "libre" =>
           /\ a.now = b.now
           /\ a.tried = b.tried
           /\ Len(a.errors) = Len(b.errors)
    /\ a.fn = "deepl" =>
           /\ a.failures = b.failures
           /\ a.delays = b.delays

\* C24 (malformed success is a failure): a 200 answer of the pool without
\* 'translatedText', and an answer of the keyed service without
\* 'translations' or with an empty list, are never returned as the
\* translation: the call goes on as it does after a request that raised,
\* and the request counts as failed.
C24_MalformedIsFailure ==
    /\ CallEnded /\ ~call.result.raised =>
           call.last \notin {LibreNoText, DeeplNoTranslations, DeeplEmptyList}
    /\ call.fn = "libre" /\ call.pc = "request" =>
           \A ticks \in 0..MaxRequestTicks :
               LET after == LibreTurn(call, version, LibreNoText, ticks)
               IN /\ after.pc # "returned"
                  /\ Len(after.errors) = Len(call.errors) + 1
                  /\ SameCourse(after, LibreTurn(call, version, PostRaises, ticks))
    /\ call.fn = "deepl" /\ call.pc = "request" =>
           \A resp \in {DeeplNoTranslations, DeeplEmptyList} :
               LET after == DeeplTurn(call, version, resp)
               IN /\ after.pc # "returned"
                  /\ after.failures = call.failures + 1
                  /\ SameCourse(after, DeeplTurn(call, version, PostRaises))

\* C24's case: a server of the pool has answered 200 without
\* 'translatedText' and the next server is about to be asked.
C24_Witness ==
    /\ call.fn = "libre"
    /\ call.pc = "request"
    /\ call.requests >= 1
    /\ call.last = LibreNoText
    /\ call.errors[Len(call.errors)].error = "KeyError"

\* The sum of a sequence of numbers.
RECURSIVE SumOf(_)
SumOf(seq) == IF seq = <<>> THEN 0 ELSE seq[1] + SumOf(Tail(seq))

\* C31 (keyed provider backoff schedule): in translate_with_deepl of
\* translator_fixed.py the wait after the failed attempt k, k = 1..4, is 2^k
\* seconds (2, 4, 8, 16), each longer than the one before; one wait is made
\* for each failed attempt but the fifth, after which there is none; a call
\* whose five attempts fail has waited 30 seconds in all.
C31_BackoffSchedule ==
    version = "fixed" /\ call.fn = "deepl" =>
        /\ \A k \in 1..Len(call.delays) : call.delays[k] = <<2, 4, 8, 16>>[k]
        /\ \A k \in 2..Len(call.delays) : call.delays[k] > call.delays[k - 1]
        /\ Len(call.delays) = IF call.pc = "raised" THEN call.failures - 1
                              ELSE call.failures
        /\ call.pc = "raised" =>
               /\ call.failures = 5
               /\ Len(call.delays) = 4
               /\ SumOf(call.delays) = 30

\* C31's case: the five attempts of a call have failed and it has raised.
C31_Witness ==
    /\ version = "fixed"
    /\ call.fn = "deepl"
    /\ call.pc = "raised"
    /\ call.delays = <<2, 4, 8, 16>>

=============================================================================
